---- MODULE Spec2Model ----
(***************************************************************************)
(* Persistence and recovery engine of hajimi-cli-sync:                     *)
(*   - provider registry        (database/dao/providers.rs)                *)
(*   - crash-recovery journal   (database/dao/backup.rs)                   *)
(*   - atomic file writer       (utils.rs, atomic_write)                    *)
(*   - backup rotation          (utils.rs, create_rotated_backup)          *)
(*   - switch orchestrator and startup recovery (lib.rs)                   *)
(* One set of variables; one specification per component plus the main    *)
(* specification Spec for the orchestrator.                                *)
(***************************************************************************)
EXTENDS Integers, Sequences, FiniteSets, TLC

VARIABLES
    providers,   \* table providers: id -> row, or Absent
    txn,         \* the open registry transaction under the connection mutex
    regRet,      \* return value of the last registry DAO call
    journal,     \* table config_backup: app_type -> original_config, or NoRow
    jRet,        \* return value of the last journal DAO call
    lastCmd,     \* the operation the last step belonged to, with its arguments
    wfs,         \* atomic writer: the target path and its temp path -> bytes
    w,           \* atomic writer: the position of the running atomic_write call
    bdir,        \* backup rotation: the config file and the backups beside it
    clock,       \* backup rotation: chrono::Local::now(), in seconds
    bRet,        \* return value of the last create_rotated_backup call
    installed,   \* orchestrator: the applications is_installed() reports
    disk,        \* orchestrator: app -> its config files and simple backups
    proc,        \* the process: idle, in switch_provider, down, or recovering
    sw,          \* switch_provider: its local variables and position
    rec,         \* recover_from_crash: the app types still to restore
    cmds,        \* commands and process exits so far
    hist         \* what the running switch has done to each application

vars == <<providers, txn, regRet, journal, jRet, lastCmd, wfs, w,
          bdir, clock, bRet, installed, disk, proc, sw, rec, cmds, hist>>

\* What each component leaves alone.
writerVars == <<wfs, w>>
journalVars == <<journal, jRet>>
registryVars == <<providers, txn, regRet>>
backupVars == <<bdir, clock, bRet>>
orchVars == <<installed, disk, proc, sw, rec, cmds, hist>>
exceptRegistry == <<journalVars, writerVars, backupVars, orchVars>>
exceptJournal == <<registryVars, writerVars, backupVars, orchVars>>
exceptWriter == <<registryVars, journalVars, backupVars, orchVars, lastCmd>>
exceptBackup == <<registryVars, journalVars, writerVars, orchVars>>
exceptOrch == <<txn, regRet, jRet, writerVars, backupVars>>

\* ------------------------------------------------------------------------
\* Bounds
\* ------------------------------------------------------------------------
MaxProviders == 2
MaxLen == 2           \* longest file content, in bytes, of the atomic writer

\* ------------------------------------------------------------------------
\* Values
\* ------------------------------------------------------------------------
\* An Option<T> is a sequence: <<>> is None, <<v>> is Some(v).
None == <<>>
Some(v) == <<v>>

ProviderIds == 1..MaxProviders
Urls == {"https://a.test", "https://b.test"}
BadUrl == "ftp://bad"
SortIndexes == {None, Some(0), Some(1)}
CreatedAts == {10, 20}

\* ------------------------------------------------------------------------
\* Provider registry (database/dao/providers.rs)
\* ------------------------------------------------------------------------
\* A ProviderRecord. url stands for the scalar fields an edit replaces
\* (name, url, api_key, default_model, per_cli_models, notes).
ProviderRecord == [id : ProviderIds, url : Urls, is_current : BOOLEAN,
                   sort_index : SortIndexes, created_at : CreatedAts]

\* The providers table is a function from the ids that have a row.
EmptyRegistry == [i \in {} |-> 0]

\* The config_backup table is a function from the app_types that have a row.
EmptyJournal == <<>>

NoTxn == [op |-> "none", id |-> 0, step |-> "none", work |-> EmptyRegistry]

Ret(status) == [status |-> status, row |-> None]

\* A command or DAO call with its arguments (unused ones are 0, "" and None).
Cmd(c, i, a, k) == [cmd |-> c, id |-> i, app |-> a, content |-> k]

CurrentIds(rows) == {i \in DOMAIN rows : rows[i].is_current}

\* get_current: SELECT ... WHERE is_current = 1 LIMIT 1
get_current(rows) ==
    IF CurrentIds(rows) = {} THEN None
    ELSE Some(rows[CHOOSE i \in CurrentIds(rows) : \A j \in CurrentIds(rows) : i <= j])

\* The is_current value save binds to the INSERT: the stored one, 0 if none.
SaveIsCurrentFromCaller(rows, p) == p.is_current

SaveIsCurrent(rows, p) ==
    IF p.id \in DOMAIN rows THEN rows[p.id].is_current ELSE FALSE

\* save: INSERT ... ON CONFLICT(id) DO UPDATE SET the edited columns
\* (is_current and created_at are not in the SET list).
save(rows, p) ==
    IF p.id \in DOMAIN rows
    THEN [rows EXCEPT ![p.id] = [@ EXCEPT !.url = p.url,
                                          !.sort_index = p.sort_index]]
    ELSE [i \in DOMAIN rows \cup {p.id} |->
            IF i = p.id THEN [p EXCEPT !.is_current = SaveIsCurrent(rows, p)]
            ELSE rows[i]]

\* UPDATE providers SET is_current = 0
ClearCurrentNone(rows) == rows

ClearCurrent(rows) ==
    [i \in DOMAIN rows |-> [rows[i] EXCEPT !.is_current = FALSE]]

\* UPDATE providers SET is_current = 1 WHERE id = ?1
MarkCurrent(rows, id) ==
    [i \in DOMAIN rows |->
        IF i = id THEN [rows[i] EXCEPT !.is_current = TRUE] ELSE rows[i]]

\* DELETE FROM providers WHERE id = ?1
DeleteRow(rows, id) == [i \in DOMAIN rows \ {id} |-> rows[i]]

DeleteGuardNever(rows, id) == FALSE

\* delete's pre-check: SELECT COALESCE(is_current, 0) ... unwrap_or(0)
DeleteGuard(rows, id) == id \in DOMAIN rows /\ rows[id].is_current

\* set_current as one call: what a committed transaction leaves; the
\* pre-check returns before anything is changed when the id has no row.
set_current(rows, id) ==
    IF id \in DOMAIN rows THEN MarkCurrent(ClearCurrent(rows), id) ELSE rows

\* save_provider's checks at the command boundary (validate_url).
validate_url(url) == url \in Urls

\* --- registry commands, statement by statement under the connection mutex
RegSave(p, url) ==
    /\ txn = NoTxn
    /\ lastCmd' = Cmd("save_provider", p.id,
                      IF p.is_current THEN "is_current" ELSE "", None)
    /\ IF validate_url(url)
       THEN /\ providers' = save(providers, [p EXCEPT !.url = url])
            /\ regRet' = Ret("Ok")
       ELSE /\ providers' = providers
            /\ regRet' = Ret("InvalidUrl")
    /\ UNCHANGED <<txn, exceptRegistry>>

RegSetCurrentBegin(id) ==
    /\ txn = NoTxn
    /\ lastCmd' = Cmd("set_current", id, "", None)
    /\ IF id \notin DOMAIN providers
       THEN /\ regRet' = Ret("ProviderNotFound")
            /\ txn' = txn
       ELSE /\ regRet' = Ret("Running")
            /\ txn' = [op |-> "set_current", id |-> id, step |-> "clear",
                       work |-> providers]
    /\ UNCHANGED <<providers, exceptRegistry>>

RegSetCurrentClearInPlace ==
    /\ txn.op = "set_current" /\ txn.step = "clear"
    /\ providers' = ClearCurrent(providers)
    /\ txn' = [txn EXCEPT !.work = ClearCurrent(txn.work), !.step = "set"]
    /\ UNCHANGED <<regRet, lastCmd, exceptRegistry>>

RegSetCurrentClear ==
    /\ txn.op = "set_current" /\ txn.step = "clear"
    /\ txn' = [txn EXCEPT !.work = ClearCurrent(txn.work), !.step = "set"]
    /\ UNCHANGED <<providers, regRet, lastCmd, exceptRegistry>>

RegSetCurrentSet ==
    /\ txn.op = "set_current" /\ txn.step = "set"
    /\ txn' = [txn EXCEPT !.work = MarkCurrent(txn.work, txn.id), !.step = "commit"]
    /\ UNCHANGED <<providers, regRet, lastCmd, exceptRegistry>>

RegDeleteBegin(id) ==
    /\ txn = NoTxn
    /\ lastCmd' = Cmd("delete_provider", id, "", None)
    /\ IF DeleteGuard(providers, id)
       THEN /\ regRet' = Ret("ProviderInUse")
            /\ txn' = txn
       ELSE /\ regRet' = Ret("Running")
            /\ txn' = [op |-> "delete", id |-> id, step |-> "delete",
                       work |-> providers]
    /\ UNCHANGED <<providers, exceptRegistry>>

RegDeleteExecute ==
    /\ txn.op = "delete" /\ txn.step = "delete"
    /\ txn' = [txn EXCEPT !.work = DeleteRow(txn.work, txn.id), !.step = "commit"]
    /\ UNCHANGED <<providers, regRet, lastCmd, exceptRegistry>>

\* tx.commit(): the working copy becomes the table every later caller reads.
RegCommit ==
    /\ txn.step = "commit"
    /\ providers' = txn.work
    /\ txn' = NoTxn
    /\ regRet' = Ret("Ok")
    /\ UNCHANGED <<lastCmd, exceptRegistry>>

\* The process dies inside a transaction: the store reopens on the last commit.
RegCrash ==
    /\ txn # NoTxn
    /\ txn' = NoTxn
    /\ regRet' = Ret("Crashed")
    /\ UNCHANGED <<providers, lastCmd, exceptRegistry>>

\* get_current_provider: takes the mutex, so it runs between transactions.
RegGetCurrent ==
    /\ txn = NoTxn
    /\ lastCmd' = Cmd("get_current_provider", 0, "", None)
    /\ regRet' = [status |-> "Ok", row |-> get_current(providers)]
    /\ UNCHANGED <<providers, txn, exceptRegistry>>

\* Database::init on a fresh store: both tables empty, no transaction open.
InitDb ==
    /\ providers = EmptyRegistry
    /\ txn = NoTxn
    /\ regRet = Ret("None")
    /\ journal = EmptyJournal
    /\ jRet = Ret("None")
    /\ lastCmd = Cmd("start", 0, "", None)

\* No atomic_write call is running.
WriterIdle ==
    /\ wfs = <<>>
    /\ w = [pc |-> "off", attempt |-> 0, content |-> <<>>, off |-> 0,
            err |-> "None", ret |-> "None", wait |-> 0, renames |-> 0,
            old |-> None, left |-> FALSE]

\* No create_rotated_backup call has run; no config file is watched.
BackupIdle ==
    /\ bdir = [file |-> None, baks |-> <<>>, mtime |-> 0, keeps |-> FALSE]
    /\ clock = 0
    /\ bRet = Ret("None")

\* No command has been issued; no application is installed.
NoSwitch == [id |-> 0, url |-> "", phase |-> "none", queue |-> <<>>, k |-> 0,
             snapshot |-> None, result |-> "none", errors |-> <<>>,
             ret |-> "none", success |-> FALSE]
NoHist == [j0 |-> <<>>, snaps |-> <<>>, touched |-> {}, faulted |-> {},
           order |-> <<>>, failed |-> {}, restores |-> <<>>, d0 |-> <<>>]

OrchIdle ==
    /\ installed = {}
    /\ disk = <<>>
    /\ proc = "off"
    /\ sw = NoSwitch
    /\ rec = {}
    /\ cmds = 0
    /\ hist = NoHist

InitRegistry == InitDb /\ WriterIdle /\ BackupIdle /\ OrchIdle

NextRegistry ==
    \/ \E p \in ProviderRecord : \E url \in {p.url, BadUrl} : RegSave(p, url)
    \/ \E id \in ProviderIds : RegSetCurrentBegin(id)
    \/ RegSetCurrentClear
    \/ RegSetCurrentSet
    \/ \E id \in ProviderIds : RegDeleteBegin(id)
    \/ RegDeleteExecute
    \/ RegCommit
    \/ RegCrash
    \/ RegGetCurrent

SpecRegistry == InitRegistry /\ [][NextRegistry]_vars

\* C3: after any sequence of save, set_current and delete from the empty
\* registry, the table any caller can read has at most one row with
\* is_current = true.
C3_AtMostOneCurrent == Cardinality(CurrentIds(providers)) <= 1

\* A transfer in progress: provider 1 is current in the table, the open
\* set_current transaction has already moved the flag to another provider.
C3_Witness ==
    /\ txn.op = "set_current" /\ txn.step = "commit"
    /\ CurrentIds(providers) = {1}
    /\ CurrentIds(txn.work) = {txn.id}
    /\ txn.id # 1

\* ------------------------------------------------------------------------
\* File contents
\* ------------------------------------------------------------------------
\* A config file's text: whether it parses in the file's format, the user's
\* own settings it carries ("u", or "none" for an empty document) and the
\* proxy url this tool merged into it ("" when it holds none).
Content(valid, user, proxy) == [valid |-> valid, user |-> user, proxy |-> proxy]

Orig == Content(TRUE, "u", "")
Corrupt == Content(FALSE, "u", "")
EmptyObj == Content(TRUE, "none", "")

\* ------------------------------------------------------------------------
\* Crash-recovery journal (database/dao/backup.rs)
\* ------------------------------------------------------------------------
\* lib.rs: all_apps, then ExtraClient::all() filtered by supports_file_sync.
AllApps == <<"claude", "codex", "gemini", "opencode", "openclaw", "droid">>
ExtraApps == <<"chatbox", "cherry-studio", "jan", "sillytavern">>

SeqRange(q) == {q[i] : i \in 1..Len(q)}
Apps == SeqRange(AllApps) \cup SeqRange(ExtraApps)

\* INSERT OR IGNORE INTO config_backup ... (app_type is the primary key)
save_backup_replace(rows, app, content) ==
    [a \in DOMAIN rows \cup {app} |-> IF a = app THEN content ELSE rows[a]]

save_backup(rows, app, content) ==
    IF app \in DOMAIN rows THEN rows
    ELSE [a \in DOMAIN rows \cup {app} |-> IF a = app THEN content ELSE rows[a]]

\* SELECT original_config FROM config_backup WHERE app_type = ?1
get_backup(rows, app) == IF app \in DOMAIN rows THEN Some(rows[app]) ELSE None

\* DELETE FROM config_backup WHERE app_type = ?1
delete_backup(rows, app) == [a \in DOMAIN rows \ {app} |-> rows[a]]

\* SELECT app_type FROM config_backup
list_app_types(rows) == DOMAIN rows

\* SELECT COUNT(*) FROM config_backup ... count > 0
has_any_backup(rows) == DOMAIN rows # {}

\* The contents and applications the journal calls below are made with.
JournalContents == {Orig, Corrupt, Content(TRUE, "u", "https://a.test")}
JournalApps == {"claude", "gemini", "chatbox"}

JSave(app, content) ==
    /\ lastCmd' = Cmd("save_backup", 0, app, Some(content))
    /\ journal' = save_backup(journal, app, content)
    /\ jRet' = Ret("Ok")
    /\ UNCHANGED exceptJournal

JGet(app) ==
    /\ lastCmd' = Cmd("get_backup", 0, app, None)
    /\ jRet' = [status |-> "Ok", row |-> get_backup(journal, app)]
    /\ UNCHANGED <<journal, exceptJournal>>

JDelete(app) ==
    /\ lastCmd' = Cmd("delete_backup", 0, app, None)
    /\ journal' = delete_backup(journal, app)
    /\ jRet' = Ret("Ok")
    /\ UNCHANGED exceptJournal

JHasAny ==
    /\ lastCmd' = Cmd("has_any_backup", 0, "", None)
    /\ jRet' = Ret(IF has_any_backup(journal) THEN "true" ELSE "false")
    /\ UNCHANGED <<journal, exceptJournal>>

InitJournal == InitDb /\ WriterIdle /\ BackupIdle /\ OrchIdle

NextJournal ==
    \/ \E a \in JournalApps, c \in JournalContents : JSave(a, c)
    \/ \E a \in JournalApps : JGet(a)
    \/ \E a \in JournalApps : JDelete(a)
    \/ JHasAny

SpecJournal == InitJournal /\ [][NextJournal]_vars

\* C5: save_snapshot is insert-if-absent. A save on an app_type that has a
\* row changes nothing in the journal; a save on one that has none adds
\* exactly the row (app, content); so after save(app, A) and any number of
\* save(app, B) without a delete the one row of app still holds A.
C5_InsertIfAbsent ==
    [][lastCmd'.cmd = "save_backup" =>
          /\ lastCmd'.app \in DOMAIN journal => journal' = journal
          /\ lastCmd'.app \notin DOMAIN journal =>
                /\ DOMAIN journal' = DOMAIN journal \cup {lastCmd'.app}
                /\ journal'[lastCmd'.app] = lastCmd'.content[1]
                /\ \A a \in DOMAIN journal : journal'[a] = journal[a]]_vars

\* save_snapshot(app, B) has just returned and the row of app holds another
\* content, the one saved first.
C5_Witness ==
    /\ lastCmd.cmd = "save_backup"
    /\ lastCmd.app \in DOMAIN journal
    /\ journal[lastCmd.app] # lastCmd.content[1]

\* ------------------------------------------------------------------------
\* Atomic file writer (utils.rs)
\* ------------------------------------------------------------------------
\* atomic_write: atomic_write_with_retry(target, content, 5)
max_retries == 5

\* A path is its file stem and its extension ("" when it has none, as for
\* the dot-file .env).
Path(stem, ext) == [stem |-> stem, ext |-> ext]

\* PathBuf::with_extension: the stem kept, the extension replaced.
with_extension_same(path, ext) == path

with_extension(path, ext) == [path EXCEPT !.ext = ext]

\* let tmp_path = target.with_extension("tmp")
tmp_path(target) == with_extension(target, "tmp")

WTargets == {Path("settings", "json"), Path(".env", "")}
Bytes == {1, 2}
WContents == UNION {[1..n -> Bytes] : n \in 0..MaxLen}
WFiles == {None} \cup {Some(c) : c \in WContents}
IoErrors == {"PermissionDenied", "FileWriteFailed"}

\* The one target of this run (the path of wfs that is no temp path).
WTarget == CHOOSE t \in WTargets : t \in DOMAIN wfs

\* File::create on a path: the file exists and is empty.
Truncate(fs, path) == [fs EXCEPT ![path] = Some(<<>>)]

\* write_all, one byte at the writer's offset.
WriteByte(fs, path, off, b) ==
    IF fs[path] = None THEN fs
    ELSE [fs EXCEPT ![path] = Some([i \in 1..off + 1 |->
                                      IF i = off + 1 THEN b ELSE fs[path][1][i]])]

\* fs::remove_file, its error ignored (let _ =).
RemoveFileNever(fs, path) == fs

RemoveFile(fs, path) == [fs EXCEPT ![path] = None]

\* fs::rename(from, to): to holds what from held, from is gone.
Rename(fs, from, to) ==
    IF from = to THEN fs ELSE [fs EXCEPT ![to] = fs[from], ![from] = None]

\* thread::sleep(Duration::from_millis(100 * (attempt as u64 + 1))), the
\* milliseconds slept after the failed attempt of index attempt.
RetryWaitFlat(attempt) == 100

RetryWait(attempt) == 100 * (attempt + 1)

\* atomic_write_with_retry up to the loop: create_dir_all, attempt = 0.
\* Beside the call's position the writer keeps, for the record, the wait that
\* preceded the running attempt (wait), the renames onto the target the call
\* has made (renames), what the target held when the call began (old) and
\* whether the last removal of the temp file failed (left).
WStart(content, mkdirOk) ==
    /\ w.pc \in {"idle", "done"}
    /\ IF mkdirOk
       THEN w' = [pc |-> "open", attempt |-> 0, content |-> content, off |-> 0,
                  err |-> "None", ret |-> "Running", wait |-> 0,
                  renames |-> 0, old |-> wfs[WTarget], left |-> FALSE]
       ELSE w' = [pc |-> "done", attempt |-> 0, content |-> content, off |-> 0,
                  err |-> "None", ret |-> "DirectoryCreationFailed",
                  wait |-> 0, renames |-> 0, old |-> wfs[WTarget],
                  left |-> FALSE]
    /\ UNCHANGED <<wfs, exceptWriter>>

\* try_atomic_write, fs::write(tmp_path, content): create or truncate.
WOpen ==
    /\ w.pc = "open"
    /\ wfs' = Truncate(wfs, tmp_path(WTarget))
    /\ w' = [w EXCEPT !.pc = IF Len(w.content) = 0 THEN "rename" ELSE "write",
                      !.off = 0]
    /\ UNCHANGED exceptWriter

WOpenFail(kind) ==
    /\ w.pc = "open"
    /\ w' = [w EXCEPT !.pc = "err", !.err = kind]
    /\ UNCHANGED <<wfs, exceptWriter>>

\* fs::write, the bytes one after another.
WWrite ==
    /\ w.pc = "write"
    /\ wfs' = WriteByte(wfs, tmp_path(WTarget), w.off, w.content[w.off + 1])
    /\ w' = [w EXCEPT !.off = w.off + 1,
                      !.pc = IF w.off + 1 = Len(w.content) THEN "rename" ELSE "write"]
    /\ UNCHANGED exceptWriter

WWriteFail(kind) ==
    /\ w.pc = "write"
    /\ w' = [w EXCEPT !.pc = "err", !.err = kind]
    /\ UNCHANGED <<wfs, exceptWriter>>

\* try_atomic_write, fs::rename(tmp_path, target).
WRename ==
    /\ w.pc = "rename"
    /\ wfs[tmp_path(WTarget)] # None
    /\ wfs' = Rename(wfs, tmp_path(WTarget), WTarget)
    /\ w' = [w EXCEPT !.pc = "done", !.ret = "Ok", !.renames = w.renames + 1]
    /\ UNCHANGED exceptWriter

WRenameFail(kind) ==
    /\ w.pc = "rename"
    /\ w' = [w EXCEPT !.pc = "err", !.err = kind]
    /\ UNCHANGED <<wfs, exceptWriter>>

\* The map_err closure removes the temp file; the loop then retries after
\* 100ms x (attempt + 1), or on the last attempt removes it and returns Err.
\* Both removals are let _ = fs::remove_file(..): when the removal fails
\* (removeOk = FALSE) the temp file stays and the call goes on all the same.
WErr(removeOk) ==
    /\ w.pc = "err"
    /\ wfs' = IF removeOk THEN RemoveFile(wfs, tmp_path(WTarget)) ELSE wfs
    /\ IF w.attempt < max_retries - 1
       THEN w' = [w EXCEPT !.pc = "open", !.attempt = w.attempt + 1, !.off = 0,
                           !.wait = RetryWait(w.attempt),
                           !.left = ~removeOk /\ wfs[tmp_path(WTarget)] # None]
       ELSE w' = [w EXCEPT !.pc = "done", !.ret = w.err,
                           !.left = ~removeOk /\ wfs[tmp_path(WTarget)] # None]
    /\ UNCHANGED exceptWriter

\* The process dies inside the call; the files stay as they are.
WCrash ==
    /\ w.pc \in {"open", "write", "rename", "err"}
    /\ w' = [w EXCEPT !.pc = "crashed", !.ret = "Crashed"]
    /\ UNCHANGED <<wfs, exceptWriter>>

\* The next launch: a later call finds whatever the crash left.
WRestart ==
    /\ w.pc = "crashed"
    /\ w' = [w EXCEPT !.pc = "idle"]
    /\ UNCHANGED <<wfs, exceptWriter>>

InitWrite ==
    /\ InitDb
    /\ BackupIdle
    /\ OrchIdle
    /\ \E t \in WTargets, old \in WFiles :
          wfs = [q \in {t, tmp_path(t)} |-> IF q = t THEN old ELSE None]
    /\ w = [pc |-> "idle", attempt |-> 0, content |-> <<>>, off |-> 0,
            err |-> "None", ret |-> "None", wait |-> 0, renames |-> 0,
            old |-> None, left |-> FALSE]

NextWrite ==
    \/ \E c \in WContents, ok \in BOOLEAN : WStart(c, ok)
    \/ WOpen
    \/ \E kind \in IoErrors : WOpenFail(kind)
    \/ WWrite
    \/ \E kind \in IoErrors : WWriteFail(kind)
    \/ WRename
    \/ \E kind \in IoErrors : WRenameFail(kind)
    \/ \E removeOk \in BOOLEAN : WErr(removeOk)
    \/ WCrash
    \/ WRestart

SpecWrite == InitWrite /\ [][NextWrite]_vars

\* C4: during an atomic write, failures and a crash at any step of any
\* attempt included, the target path never holds truncated or mixed content:
\* the only step that changes what the target holds is the rename, and that
\* step leaves it holding the complete new content.
C4_TargetOldOrNew ==
    [][wfs'[WTarget] # wfs[WTarget] =>
          /\ w.pc = "rename" /\ w'.pc = "done"
          /\ wfs'[WTarget] = Some(w.content)]_vars

\* The write was interrupted in the middle of the temp file: the process has
\* crashed in a retry, the temp file holds a proper prefix of the new content
\* and the target still holds other, older content.
C4_Witness ==
    /\ w.pc = "crashed" /\ w.attempt > 0
    /\ wfs[tmp_path(WTarget)] # None
    /\ Len(wfs[tmp_path(WTarget)][1]) > 0
    /\ Len(wfs[tmp_path(WTarget)][1]) < Len(w.content)
    /\ wfs[WTarget] # None /\ wfs[WTarget] # Some(w.content)

\* One step of a running atomic_write call: the thread that runs the call
\* takes its next step for as long as the process lives.
WriterStep ==
    \/ WOpen
    \/ \E kind \in IoErrors : WOpenFail(kind)
    \/ WWrite
    \/ \E kind \in IoErrors : WWriteFail(kind)
    \/ WRename
    \/ \E kind \in IoErrors : WRenameFail(kind)
    \/ \E removeOk \in BOOLEAN : WErr(removeOk)

\* The writer under the scheduling of a sequential call: a step that stays
\* enabled is taken.
SpecWriteLive == SpecWrite /\ WF_vars(WriterStep)

\* C22: an atomic write makes at most 5 attempts (indices 0..4); the wait
\* before attempt number n + 1 is 100ms x n; the first rename that succeeds
\* ends the call with Ok; a call that returned Ok has renamed onto the target
\* exactly once and the target holds its content, a call that returned an
\* error has never renamed; and every call that has begun returns (or the
\* process dies in it).
C22_BoundedRetries ==
    /\ [](w.attempt < 5)
    /\ [][(w.pc = "err" /\ w'.pc = "open") =>
             /\ w'.attempt = w.attempt + 1
             /\ w'.wait = 100 * w'.attempt]_vars
    /\ [][w'.renames > w.renames =>
             /\ wfs'[WTarget] = Some(w.content)
             /\ w'.pc = "done" /\ w'.ret = "Ok"]_vars
    /\ [](w.pc = "done" =>
             /\ w.ret = "Ok" => w.renames = 1 /\ wfs[WTarget] = Some(w.content)
             /\ w.ret # "Ok" => w.renames = 0)
    /\ (w.ret = "Running") ~> (w.ret # "Running")

\* The fifth attempt succeeded after four failed ones: the call waited
\* 400ms before it, renamed once and returned Ok.
C22_Witness ==
    /\ w.pc = "done" /\ w.ret = "Ok"
    /\ w.attempt = 4 /\ w.wait = 400
    /\ w.renames = 1
    /\ wfs[WTarget] = Some(w.content) /\ w.old # Some(w.content)

\* The call ended after its attempts (create_dir_all had succeeded).
AllAttemptsFailed ==
    w.pc = "done" /\ w.ret \notin {"Ok", "DirectoryCreationFailed"}

Writers == {1, 2}

\* What call i writes: MaxLen bytes of its own.
ContentOf(i) == [n \in 1..MaxLen |-> i]

\* write_all through a descriptor at offset off, on a file another call may
\* have truncated or extended meanwhile: bytes past the end of the file up
\* to the offset read as 0, bytes after the one written stay.
Hole == 0

WriteAt(fs, path, off, b) ==
    IF fs[path] = None THEN fs
    ELSE LET old == fs[path][1]
             len == IF Len(old) > off + 1 THEN Len(old) ELSE off + 1
         IN  [fs EXCEPT ![path] = Some([n \in 1..len |->
                                          IF n = off + 1 THEN b
                                          ELSE IF n <= Len(old) THEN old[n]
                                          ELSE Hole])]

\* atomic_write_with_retry up to the loop, for call i.
PStart(i) ==
    /\ w[i].pc = "idle"
    /\ w' = [w EXCEPT ![i] =
                [pc |-> "open", attempt |-> 0, content |-> ContentOf(i),
                 off |-> 0, err |-> "None", ret |-> "Running", wait |-> 0,
                 renames |-> 0, old |-> wfs[WTarget], left |-> FALSE]]
    /\ UNCHANGED <<wfs, exceptWriter>>

\* The next step of call i; no file-system call fails for a reason of its
\* own. fs::rename fails when the temp file is not there any more; the
\* map_err closure and the loop then go on as in WErr.
PStep(i) ==
    LET me == w[i]
        tmp == tmp_path(WTarget)
    IN  /\ UNCHANGED exceptWriter
        /\ CASE me.pc = "open" ->
                  /\ wfs' = Truncate(wfs, tmp)
                  /\ w' = [w EXCEPT ![i] = [me EXCEPT !.off = 0, !.pc = "write"]]
             [] me.pc = "write" ->
                  /\ wfs' = WriteAt(wfs, tmp, me.off, me.content[me.off + 1])
                  /\ w' = [w EXCEPT ![i] =
                              [me EXCEPT !.off = me.off + 1,
                                         !.pc = IF me.off + 1 = Len(me.content)
                                                THEN "rename" ELSE "write"]]
             [] me.pc = "rename" ->
                  IF wfs[tmp] = None
                  THEN /\ wfs' = wfs
                       /\ w' = [w EXCEPT ![i] = [me EXCEPT
                                   !.pc = "err", !.err = "FileWriteFailed"]]
                  ELSE /\ wfs' = Rename(wfs, tmp, WTarget)
                       /\ w' = [w EXCEPT ![i] = [me EXCEPT
                                   !.pc = "done", !.ret = "Ok",
                                   !.renames = me.renames + 1]]
             [] me.pc = "err" ->
                  /\ wfs' = RemoveFile(wfs, tmp)
                  /\ w' = [w EXCEPT ![i] =
                              IF me.attempt < max_retries - 1
                              THEN [me EXCEPT !.pc = "open", !.off = 0,
                                              !.attempt = me.attempt + 1,
                                              !.wait = RetryWait(me.attempt)]
                              ELSE [me EXCEPT !.pc = "done", !.ret = me.err]]
             [] OTHER -> FALSE

InitPair ==
    /\ InitDb
    /\ BackupIdle
    /\ OrchIdle
    /\ \E t \in WTargets, old \in WFiles :
          wfs = [q \in {t, tmp_path(t)} |-> IF q = t THEN old ELSE None]
    /\ w = [i \in Writers |->
              [pc |-> "idle", attempt |-> 0, content |-> <<>>, off |-> 0,
               err |-> "None", ret |-> "None", wait |-> 0, renames |-> 0,
               old |-> None, left |-> FALSE]]

NextPair ==
    \/ \E i \in Writers : PStart(i)
    \/ \E i \in Writers : PStep(i)

SpecPair == InitPair /\ [][NextPair]_vars

\* C30: when two atomic_write calls on one target run concurrently, the
\* target holds at every moment what it held before or the complete content
\* of one of the two calls, no call returns an error, and once both have
\* returned the target holds the complete content of one of them.
C30_ConcurrentWritesStayWhole ==
    /\ \A i \in Writers :
          w[i].pc = "done" =>
             /\ w[i].ret = "Ok"
             /\ wfs[WTarget] \in {Some(ContentOf(j)) : j \in Writers}
    /\ \A i \in Writers :
          w[i].pc # "idle" =>
             wfs[WTarget] \in {w[j].old : j \in Writers}
                              \cup {Some(ContentOf(j)) : j \in Writers}

\* ------------------------------------------------------------------------
\* Backup rotation (utils.rs, create_rotated_backup / cleanup_old_backups)
\* ------------------------------------------------------------------------
BACKUP_RETAIN_COUNT == 5
MaxClock == 6         \* seconds the clock runs through

\* Names of the backups beside one config file: None is the simple backup
\* <name><suffix>, Some(t) the timestamped backup <name>.<t><suffix>.
simple_backup == None
backup_name(timestamp) == Some(timestamp)

\* Contents the config file goes through: the user's own and a synced one.
BContents == {Orig, Content(TRUE, "u", "https://a.test")}

\* fs::copy(path, to): the destination gets the source's bytes, written now.
CopyTo(baks, to, content, now) ==
    [k \in DOMAIN baks \cup {to} |->
        IF k = to THEN [content |-> content, mtime |-> now] ELSE baks[k]]

\* The simple backup is copied only when none exists yet.
CopySimpleAlways(baks, content, now) == CopyTo(baks, simple_backup, content, now)

CopySimple(baks, content, now) ==
    IF simple_backup \in DOMAIN baks THEN baks
    ELSE CopyTo(baks, simple_backup, content, now)

\* cleanup_old_backups: the directory entries that match
\* <name>.<anything><suffix> and are not the simple backup.
Timestamped(baks) == {k \in DOMAIN baks : k # simple_backup}

\* The sets the loop may remove: remove_count entries that come first in an
\* oldest-first order by modification time.
Oldest(baks) ==
    LET c == Timestamped(baks)
        n == Cardinality(c) - BACKUP_RETAIN_COUNT
    IN  IF n <= 0 THEN {{}}
        ELSE {r \in SUBSET c :
                /\ Cardinality(r) = n
                /\ \A x \in r, y \in c \ r : baks[x].mtime <= baks[y].mtime}

RemoveAll(baks, gone) == [k \in DOMAIN baks \ gone |-> baks[k]]

\* The modification time fs::copy leaves on the copy: the source's where
\* the platform's copy carries it over (CopyFileExW, fclonefileat), the time
\* of the copy elsewhere. bdir.keeps says which platform this run is on,
\* bdir.mtime is the modification time of the config file.
CopyTimeNow == clock

CopyTime == IF bdir.keeps THEN bdir.mtime ELSE clock

BFaults == {"none", "copy_simple", "copy_timestamped", "read_dir", "remove_file"}

\* create_rotated_backup(path, suffix), one whole call. fault names the file
\* system call that fails in it, if any.
CreateRotatedBackup(fault) ==
    /\ lastCmd' = Cmd("create_rotated_backup", 0, fault, bdir.file)
    /\ UNCHANGED <<clock, exceptBackup>>
    /\ IF bdir.file = None
       THEN /\ fault = "none"
            /\ bRet' = Ret("OkNone")
            /\ UNCHANGED bdir
       ELSE LET content == bdir.file[1]
                b1 == CopySimple(bdir.baks, content, CopyTime)
                b2 == CopyTo(b1, backup_name(clock), content, CopyTime)
            IN  CASE fault = "copy_simple" ->
                       /\ simple_backup \notin DOMAIN bdir.baks
                       /\ bRet' = Ret("FileWriteFailed")
                       /\ UNCHANGED bdir
                  [] fault = "copy_timestamped" ->
                       /\ bRet' = Ret("FileWriteFailed")
                       /\ bdir' = [bdir EXCEPT !.baks = b1]
                  [] fault = "read_dir" ->
                       /\ bRet' = Ret("Other")
                       /\ bdir' = [bdir EXCEPT !.baks = b2]
                  [] fault = "remove_file" ->
                       /\ Oldest(b2) # {{}}
                       /\ \E r \in Oldest(b2) : \E kept \in SUBSET r :
                             /\ kept # {}
                             /\ bdir' = [bdir EXCEPT
                                            !.baks = RemoveAll(b2, r \ kept)]
                       /\ bRet' = [status |-> "Ok", row |-> Some(backup_name(clock))]
                  [] OTHER ->
                       /\ \E r \in Oldest(b2) :
                             bdir' = [bdir EXCEPT !.baks = RemoveAll(b2, r)]
                       /\ bRet' = [status |-> "Ok", row |-> Some(backup_name(clock))]

\* The config file is rewritten by a sync or by its owner. Its modification
\* time is followed only where copies carry it.
BEdit(content) ==
    /\ bdir.file # Some(content)
    /\ bdir' = [bdir EXCEPT !.file = Some(content),
                            !.mtime = IF bdir.keeps THEN clock ELSE 0]
    /\ lastCmd' = Cmd("edit", 0, "", Some(content))
    /\ UNCHANGED <<clock, bRet, exceptBackup>>

\* The config file is deleted.
BRemove ==
    /\ bdir.file # None
    /\ bdir' = [bdir EXCEPT !.file = None, !.mtime = 0]
    /\ lastCmd' = Cmd("remove", 0, "", None)
    /\ UNCHANGED <<clock, bRet, exceptBackup>>

\* A second passes.
BTick ==
    /\ clock < MaxClock
    /\ clock' = clock + 1
    /\ lastCmd' = Cmd("tick", 0, "", None)
    /\ UNCHANGED <<bdir, bRet, exceptBackup>>

InitBackup ==
    /\ InitDb
    /\ WriterIdle
    /\ OrchIdle
    /\ bdir \in [file : {None} \cup {Some(c) : c \in BContents}, baks : {<<>>},
                mtime : {0}, keeps : {FALSE}]
    /\ clock = 0
    /\ bRet = Ret("None")

NextBackup ==
    \/ \E fault \in BFaults : CreateRotatedBackup(fault)
    \/ \E c \in BContents : BEdit(c)
    \/ BRemove
    \/ BTick

SpecBackup == InitBackup /\ [][NextBackup]_vars

\* restore_config, a file that has its simple backup: fs::rename(backup_path,
\* file.path). The config file is the backup from now on, its modification
\* time included, and the simple backup is gone.
BRestore ==
    /\ simple_backup \in DOMAIN bdir.baks
    /\ bdir' = [bdir EXCEPT
                   !.file = Some(bdir.baks[simple_backup].content),
                   !.mtime = IF bdir.keeps THEN bdir.baks[simple_backup].mtime
                             ELSE 0,
                   !.baks = RemoveAll(bdir.baks, {simple_backup})]
    /\ lastCmd' = Cmd("restore_config", 0, "", None)
    /\ UNCHANGED <<clock, bRet, exceptBackup>>

\* Rotation on either kind of platform, over a config file that exists, is
\* rewritten by a sync between the calls and is restored from its simple
\* backup; no file-system call of a rotation fails.
InitRotate ==
    /\ InitDb
    /\ WriterIdle
    /\ OrchIdle
    /\ bdir \in [file : {Some(Orig)}, baks : {<<>>}, mtime : {0}, keeps : BOOLEAN]
    /\ clock = 0
    /\ bRet = Ret("None")

NextRotate ==
    \/ CreateRotatedBackup("none")
    \/ BEdit(Content(TRUE, "u", "https://a.test"))
    \/ BRestore
    \/ BTick

\* The timestamped backups a rotation step has removed.
Pruned == DOMAIN bdir.baks \ DOMAIN bdir'.baks

\* C24: after every successful create_rotated_backup on an existing path (no
\* file-system call of it failing), the timestamped backup named after the
\* time of the call exists and holds the file's content; at most 5
\* timestamped backups remain; no backup that was removed has a newer
\* modification time than one that was kept; and the simple ("latest")
\* backup is not removed.
C24_RotationKeepsNewest ==
    [][(/\ lastCmd'.cmd = "create_rotated_backup"
        /\ bdir.file # None
        /\ bRet'.status = "Ok") =>
          /\ backup_name(clock) \in DOMAIN bdir'.baks
          /\ bdir'.baks[backup_name(clock)].content = bdir.file[1]
          /\ Cardinality(Timestamped(bdir'.baks)) <= 5
          /\ \A x \in Pruned, y \in Timestamped(bdir'.baks) :
                bdir.baks[x].mtime <= bdir'.baks[y].mtime
          /\ simple_backup \in DOMAIN bdir'.baks]_vars

SpecRotate == InitRotate /\ [][NextRotate]_vars

C25_PruneFailureNotPropagated ==
    [][(/\ lastCmd'.cmd = "create_rotated_backup"
        /\ lastCmd'.app \in {"read_dir", "remove_file"}) =>
          /\ bRet'.status = "Ok"
          /\ bRet'.row = Some(backup_name(clock))]_vars

\* ------------------------------------------------------------------------
\* Config-format adapters (cli_sync.rs, opencode_sync.rs, openclaw_sync.rs,
\* droid_sync.rs, extra_clients.rs)
\* ------------------------------------------------------------------------
MaxCmds == 2          \* switch_provider commands plus process exits

CliApps == {"claude", "codex", "gemini"}

\* The config files of each application, in the order its sync writes them.
config_files(app) ==
    CASE app = "claude" -> <<Path(".claude", "json"), Path("settings", "json")>>
      [] app = "codex" -> <<Path("auth", "json"), Path("config", "toml")>>
      [] app = "gemini" -> <<Path(".env", ""), Path("settings", "json"),
                             Path("config", "json")>>
      [] app = "opencode" -> <<Path("opencode", "json")>>
      [] app = "openclaw" -> <<Path("openclaw", "json")>>
      [] app = "droid" -> <<Path("settings", "json")>>
      [] app = "chatbox" -> <<Path("config", "json")>>
      [] app = "cherry-studio" -> <<Path("config", "json")>>
      [] app = "jan" -> <<Path("openai", "json")>>
      [] OTHER -> <<Path("secrets", "json")>>

\* One config file on disk with the simple backup beside it. The timestamped
\* backups of create_rotated_backup are followed in SpecBackup.
File(content, bak) == [file |-> content, bak |-> bak]

SetFile(files, k, entry) == [files EXCEPT ![k] = entry]

\* What a sync writes: the existing document with the proxy settings put in.
\* A JSON or TOML file that does not parse is replaced by an empty document;
\* the lines of a .env file are kept whatever they are.
Merge(name, existing, url) ==
    LET base == IF existing = None THEN EmptyObj
                ELSE IF name.ext = "" \/ existing[1].valid THEN existing[1]
                ELSE EmptyObj
    IN  [base EXCEPT !.proxy = url]

\* sync_config: gemini's config.json is left alone when it does not exist and
\* settings.json does.
Skipped(files, app, k) ==
    /\ app = "gemini"
    /\ config_files(app)[k] = Path("config", "json")
    /\ files[k].file = None
    /\ files[2].file # None

\* create_backup, and the simple backup of create_rotated_backup: copied only
\* when the file exists and no simple backup does.
BackupOnce(entry) ==
    IF entry.file # None /\ entry.bak = None THEN entry.file ELSE entry.bak

\* read_config_snapshot: the first config file, None when it cannot be read;
\* droid reads "{}" for a missing file.
read_config_snapshot(d, app) ==
    CASE app \in CliApps -> d[app][1].file
      [] app = "droid" ->
            IF d[app][1].file = None THEN Some(EmptyObj) ELSE d[app][1].file
      [] app \in {"opencode", "openclaw"} -> d[app][1].file
      [] OTHER -> None

read_extra_config_content(d, app) == d[app][1].file

\* Result<(), String> of a restore, with the files it leaves.
Done(ok, files) == [ok |-> ok, files |-> files]

\* A file cut short by a write that did not finish.
Partial == Content(FALSE, "none", "")

\* write_config_content: a name ending in ".json" must hold valid JSON; then
\* atomic_write.
write_config_content(files, app, content, ioFail) ==
    IF config_files(app)[1].ext = "json" /\ ~content.valid THEN Done(FALSE, files)
    ELSE IF ioFail THEN Done(FALSE, files)
    ELSE Done(TRUE, SetFile(files, 1, File(Some(content), files[1].bak)))

\* write_opencode_config_content is called by restore_from_snapshot and is
\* not part of the sources; it is taken as the raw write the specification
\* describes: the content goes to the config file verbatim.
write_opencode_config_content(files, content, ioFail) ==
    IF ioFail THEN Done(FALSE, files)
    ELSE Done(TRUE, SetFile(files, 1, File(Some(content), files[1].bak)))

\* write_openclaw_config_content: JSON check, then fs::write onto the file.
write_openclaw_config_content(files, content, ioFail) ==
    IF ~content.valid THEN Done(FALSE, files)
    ELSE IF ioFail THEN Done(FALSE, SetFile(files, 1, File(Some(Partial), files[1].bak)))
    ELSE Done(TRUE, SetFile(files, 1, File(Some(content), files[1].bak)))

\* write_droid_config_content: JSON check, then atomic_write.
write_droid_config_content(files, content, ioFail) ==
    IF ~content.valid \/ ioFail THEN Done(FALSE, files)
    ELSE Done(TRUE, SetFile(files, 1, File(Some(content), files[1].bak)))

\* write_extra_config_content: "not supported yet".
write_extra_config_content(files, content) == Done(FALSE, files)

restore_from_snapshot(files, app, content, ioFail) ==
    CASE app \in CliApps -> write_config_content(files, app, content, ioFail)
      [] app = "opencode" -> write_opencode_config_content(files, content, ioFail)
      [] app = "openclaw" -> write_openclaw_config_content(files, content, ioFail)
      [] app = "droid" -> write_droid_config_content(files, content, ioFail)
      [] OTHER -> write_extra_config_content(files, content)

\* restore_config, no backup found: the files it writes anew. Claude's
\* .claude.json is written only when it parses and holds an injected key.
StripApplies(app, name, content) ==
    \/ app = "claude" /\ name = Path("settings", "json")
    \/ app = "claude" /\ name = Path(".claude", "json")
          /\ content.valid /\ content.proxy # ""
    \/ app = "codex" /\ name.ext = "toml"
    \/ app = "gemini" /\ name.ext = ""

\* What it writes: the document without the injected keys; a settings.json
\* or config.toml that does not parse is replaced by the default document
\* (unwrap_or_default, DocumentMut::new).
Strip(name, content) ==
    IF name.ext = "" \/ content.valid THEN [content EXCEPT !.proxy = ""]
    ELSE EmptyObj

\* restore_config: every simple backup is renamed back onto its file; when
\* there is none, the injected keys are removed from the files in place.
restore_config(files, app, ioFail) ==
    LET withBak == {k \in DOMAIN files : files[k].bak # None}
        toStrip == {k \in DOMAIN files :
                       /\ files[k].file # None
                       /\ StripApplies(app, config_files(app)[k],
                                       files[k].file[1])}
    IN  IF withBak # {}
        THEN IF ioFail THEN Done(FALSE, files)
             ELSE Done(TRUE, [k \in DOMAIN files |->
                                IF k \in withBak THEN File(files[k].bak, None)
                                ELSE files[k]])
        ELSE IF ioFail /\ toStrip # {} THEN Done(FALSE, files)
             ELSE Done(TRUE, [k \in DOMAIN files |->
                                IF k \in toStrip
                                THEN File(Some(Strip(config_files(app)[k],
                                                     files[k].file[1])), None)
                                ELSE files[k]])

\* restore_opencode_config, restore_openclaw_config, restore_extra_config:
\* the config file is removed, then the backup renamed onto it.
restore_remove_rename(files, ioFail) ==
    IF files[1].bak = None THEN Done(FALSE, files)
    ELSE IF ioFail THEN Done(FALSE, SetFile(files, 1, File(None, files[1].bak)))
    ELSE Done(TRUE, SetFile(files, 1, File(files[1].bak, None)))

\* restore_droid_config: the backup is renamed onto the config file.
restore_droid_config_copy(files, ioFail) ==
    IF files[1].bak = None \/ ioFail THEN Done(FALSE, files)
    ELSE Done(TRUE, SetFile(files, 1, File(files[1].bak, files[1].bak)))

restore_droid_config(files, ioFail) ==
    IF files[1].bak = None \/ ioFail THEN Done(FALSE, files)
    ELSE Done(TRUE, SetFile(files, 1, File(files[1].bak, None)))

restore_via_module(files, app, ioFail) ==
    CASE app \in CliApps -> restore_config(files, app, ioFail)
      [] app = "droid" -> restore_droid_config(files, ioFail)
      [] OTHER -> restore_remove_rename(files, ioFail)

\* ------------------------------------------------------------------------
\* Switch orchestrator and startup recovery (lib.rs)
\* ------------------------------------------------------------------------
\* The order of the two loops of switch_provider.
SwitchOrder == AllApps \o ExtraApps

InOrder(apps) == SelectSeq(SwitchOrder, LAMBDA a : a \in apps)

UrlOf(i) == IF i % 2 = 1 THEN "https://a.test" ELSE "https://b.test"

\* An id no provider row has.
MissingId == MaxProviders + 1

\* providers::get_all(..).into_iter().find(|p| p.id == id)
FindTargetOrAny(rows, id) ==
    IF id \in DOMAIN rows THEN Some(rows[id])
    ELSE Some(rows[CHOOSE i \in DOMAIN rows : TRUE])

FindTarget(rows, id) ==
    IF id \in DOMAIN rows THEN Some(rows[id]) ELSE None

\* The loop goes on to the next application whatever the result was.
NextQueueStopOnError(queue, result) ==
    IF result = "Err" THEN <<>> ELSE Tail(queue)

NextQueue(queue, result) == Tail(queue)

\* Step d of the loop: the row is deleted when the sync returned Ok.
PostJournalAlways(rows, app, result) == delete_backup(rows, app)

PostJournalNever(rows, app, result) == rows

PostJournal(rows, app, result) ==
    IF result = "Ok" THEN delete_backup(rows, app) ELSE rows

\* Phase 2: providers::set_current(&state.db, &id), whatever errors holds.
CommitCurrentIfClean(rows, id, errors) ==
    IF errors = <<>> THEN set_current(rows, id) ELSE rows

CommitCurrent(rows, id, errors) == set_current(rows, id)

\* Step d after Err: one SyncResult with the application's name is pushed.
PushErrorAlways(errors, app, result) == Append(errors, app)

PushError(errors, app, result) ==
    IF result = "Err" THEN Append(errors, app) ELSE errors

\* The value switch_provider returns after phase 2: success is
\* errors.is_empty().
SwitchResultSuccessAlways(errors) == [success |-> TRUE, errors |-> errors]

SwitchResult(errors) == [success |-> errors = <<>>, errors |-> errors]

\* The ways one file's step of a sync fails.
SyncFaults == {"none", "copy_simple", "copy_timestamped", "atomic_write"}

\* The ways one application's step of recover_from_crash fails.
RecFaults == {"none", "get_backup", "write", "delete_backup"}

\* For the record, in the runs whose initial state holds it (SpecCrash): the
\* files of the applications with several config files as they are when a
\* switch begins.
Followed == DOMAIN hist.d0 # {}

FilesBefore ==
    IF Followed THEN [a \in installed \cap CliApps |-> disk[a]] ELSE <<>>

\* switch_provider is invoked: the target lookup.
SwStart(id) ==
    /\ proc = "idle"
    /\ txn = NoTxn
    /\ cmds < MaxCmds
    /\ cmds' = cmds + 1
    /\ lastCmd' = Cmd("switch_provider", id, "", None)
    /\ LET target == FindTarget(providers, id)
           queue == InOrder(installed)
       IN  IF target = None
           THEN /\ sw' = [NoSwitch EXCEPT !.id = id, !.phase = "done",
                                          !.ret = "ProviderNotFound"]
                /\ hist' = NoHist
                /\ proc' = proc
           ELSE /\ sw' = [NoSwitch EXCEPT
                            !.id = id, !.url = target[1].url, !.queue = queue,
                            !.phase = IF queue = <<>> THEN "commit" ELSE "snapshot"]
                /\ hist' = [NoHist EXCEPT !.j0 = journal, !.d0 = FilesBefore]
                /\ proc' = "switch"
    /\ UNCHANGED <<providers, journal, installed, disk, rec, exceptOrch>>

\* Steps a and b for the application at the head of the queue: read the
\* snapshot and, when there is one, save_backup; its failure is only logged.
SwSnapshot(saveOk) ==
    /\ proc = "switch"
    /\ sw.phase = "snapshot"
    /\ LET app == Head(sw.queue)
           snap == IF app \in SeqRange(AllApps)
                   THEN read_config_snapshot(disk, app)
                   ELSE read_extra_config_content(disk, app)
       IN  /\ snap = None => saveOk
           /\ journal' = IF snap # None /\ saveOk
                         THEN save_backup(journal, app, snap[1]) ELSE journal
           /\ sw' = [sw EXCEPT !.phase = "sync", !.k = 1, !.snapshot = snap,
                               !.result = "none"]
           /\ hist' = [hist EXCEPT
                 !.snaps = [a \in DOMAIN hist.snaps \cup {app} |->
                               IF a = app THEN snap ELSE hist.snaps[a]],
                 !.faulted = IF saveOk THEN @ ELSE @ \cup {app},
                 !.order = Append(@, [app |-> app, ev |-> "snapshot"])]
           /\ lastCmd' = Cmd("switch_provider", sw.id, app, snap)
    /\ UNCHANGED <<providers, installed, disk, proc, rec, cmds, exceptOrch>>

\* Step c, one config file of the application's sync: backup, merge, atomic
\* write. The first failure ends the sync with Err.
SwSync(fault) ==
    /\ proc = "switch"
    /\ sw.phase = "sync"
    /\ LET app == Head(sw.queue)
           files == disk[app]
           k == sw.k
           cur == files[k]
           name == config_files(app)[k]
           last == k = Len(files)
           next == IF last THEN [sw EXCEPT !.phase = "post", !.result = "Ok"]
                   ELSE [sw EXCEPT !.k = k + 1]
           failed == [sw EXCEPT !.phase = "post", !.result = "Err"]
           backedUp == File(cur.file, BackupOnce(cur))
       IN  /\ lastCmd' = Cmd("switch_provider", sw.id, app, None)
           /\ hist' = [hist EXCEPT
                 !.order = IF k = 1 THEN Append(@, [app |-> app, ev |-> "sync"])
                           ELSE @,
                 !.touched = IF fault = "none" /\ ~Skipped(files, app, k)
                             THEN @ \cup {app} ELSE @,
                 !.failed = IF fault = "none" THEN @ ELSE @ \cup {app}]
           /\ IF Skipped(files, app, k)
              THEN /\ fault = "none"
                   /\ sw' = next
                   /\ disk' = disk
              ELSE CASE fault = "copy_simple" ->
                          /\ cur.file # None /\ cur.bak = None
                          /\ sw' = failed
                          /\ disk' = disk
                     [] fault = "copy_timestamped" ->
                          /\ cur.file # None /\ app # "opencode"
                          /\ sw' = failed
                          /\ disk' = [disk EXCEPT ![app][k] = backedUp]
                     [] fault = "atomic_write" ->
                          /\ sw' = failed
                          /\ disk' = [disk EXCEPT ![app][k] = backedUp]
                     [] OTHER ->
                          /\ sw' = next
                          /\ disk' = [disk EXCEPT ![app][k] =
                                File(Some(Merge(name, cur.file, sw.url)),
                                     backedUp.bak)]
    /\ UNCHANGED <<providers, journal, installed, proc, rec, cmds, exceptOrch>>

\* Step d: delete_backup after Ok (its failure is dropped), an entry in
\* errors after Err; then the next application, or phase 2.
SwPost(deleteOk) ==
    /\ proc = "switch"
    /\ sw.phase = "post"
    /\ LET app == Head(sw.queue)
           queue == NextQueue(sw.queue, sw.result)
       IN  /\ sw.result = "Err" => deleteOk
           /\ journal' = IF deleteOk THEN PostJournal(journal, app, sw.result)
                         ELSE journal
           /\ sw' = [sw EXCEPT
                 !.errors = PushError(sw.errors, app, sw.result),
                 !.queue = queue, !.k = 0, !.snapshot = None, !.result = "none",
                 !.phase = IF queue = <<>> THEN "commit" ELSE "snapshot"]
           /\ hist' = [hist EXCEPT
                 !.touched = IF sw.result = "Ok" THEN @ \ {app} ELSE @,
                 !.faulted = IF deleteOk THEN @ ELSE @ \cup {app}]
           /\ lastCmd' = Cmd("switch_provider", sw.id, app, None)
    /\ UNCHANGED <<providers, installed, disk, proc, rec, cmds, exceptOrch>>

\* Phase 2 and the return of the SwitchResult. providers::set_current(..)?
\* takes the connection mutex; when the target has no row any more its
\* pre-check fails and switch_provider returns that error.
SwCommit ==
    /\ proc = "switch"
    /\ sw.phase = "commit"
    /\ txn = NoTxn
    /\ providers' = CommitCurrent(providers, sw.id, sw.errors)
    /\ sw' = IF sw.id \in DOMAIN providers
             THEN [sw EXCEPT !.phase = "done", !.ret = "Ok",
                             !.success = SwitchResult(sw.errors).success,
                             !.errors = SwitchResult(sw.errors).errors]
             ELSE [sw EXCEPT !.phase = "done", !.ret = "ProviderNotFound"]
    /\ proc' = "idle"
    /\ lastCmd' = Cmd("switch_provider", sw.id, "return", None)
    /\ UNCHANGED <<journal, installed, disk, rec, cmds, hist, exceptOrch>>

\* The process stops: killed in the middle of a command, or quit while idle.
\* The database and the files stay as they are.
Crash ==
    /\ proc \in {"idle", "switch", "recover"}
    /\ cmds < MaxCmds
    /\ cmds' = cmds + 1
    /\ proc' = "down"
    /\ sw' = NoSwitch
    /\ rec' = {}
    /\ lastCmd' = Cmd("exit", 0, "", None)
    /\ UNCHANGED <<providers, journal, installed, disk, hist, exceptOrch>>

\* run(): recover_from_crash is entered when has_any_backup().
RestartRecoversInstalled ==
    /\ proc = "down"
    /\ rec' = installed
    /\ proc' = IF installed # {} THEN "recover" ELSE "idle"
    /\ hist' = [NoHist EXCEPT !.d0 = hist.d0,
                              !.j0 = IF Followed THEN hist.j0 ELSE <<>>]
    /\ lastCmd' = Cmd("run", 0, "", None)
    /\ UNCHANGED <<providers, journal, installed, disk, sw, cmds, exceptOrch>>

Restart ==
    /\ proc = "down"
    /\ rec' = IF has_any_backup(journal) THEN list_app_types(journal) ELSE {}
    /\ proc' = IF has_any_backup(journal) THEN "recover" ELSE "idle"
    /\ hist' = [NoHist EXCEPT !.d0 = hist.d0,
                              !.j0 = IF Followed THEN hist.j0 ELSE <<>>]
    /\ lastCmd' = Cmd("run", 0, "", None)
    /\ UNCHANGED <<providers, journal, installed, disk, sw, cmds, exceptOrch>>

\* recover_from_crash, the match on the restore's result: the row is deleted
\* after Ok and left for the next launch after Err.
PostRecoverAlways(rows, app, ok) == delete_backup(rows, app)

PostRecover(rows, app, ok) ==
    IF ok THEN delete_backup(rows, app) ELSE rows

\* recover_from_crash, one app type of the loop: the row's snapshot is
\* written back, or the module's own restore runs when no snapshot comes
\* back; the row is deleted only after Ok.
RecoverStep(a, fault) ==
    /\ proc = "recover"
    /\ a \in rec
    /\ LET snapshot == IF fault = "get_backup" THEN None
                       ELSE get_backup(journal, a)
           r == IF snapshot # None
                THEN restore_from_snapshot(disk[a], a, snapshot[1], fault = "write")
                ELSE restore_via_module(disk[a], a, fault = "write")
       IN  /\ disk' = [disk EXCEPT ![a] = r.files]
           /\ journal' = IF fault = "delete_backup" THEN journal
                         ELSE PostRecover(journal, a, r.ok)
           /\ hist' = [hist EXCEPT !.restores =
                          Append(@, [app |-> a,
                                     ev |-> IF r.ok THEN "Ok" ELSE "Err"])]
           /\ lastCmd' = Cmd(IF fault = "none" THEN "recover_from_crash"
                             ELSE "recover_from_crash_fault", 0, a, snapshot)
    /\ rec' = rec \ {a}
    /\ proc' = IF rec' = {} THEN "idle" ELSE "recover"
    /\ UNCHANGED <<providers, installed, sw, cmds, exceptOrch>>

\* The sets of applications is_installed() reports, one per run.
Installations ==
    {{}, {"claude"}, {"droid"}, {"codex", "chatbox"}, {"gemini", "opencode"},
     {"openclaw"}, {"jan"}, {"cherry-studio"}, {"sillytavern"}}

\* How an installed application's files look before the first switch.
InitPatterns == {"fresh", "plain", "broken"}

InitFiles(app, pat) ==
    LET n == Len(config_files(app))
    IN  [k \in 1..n |->
           File(CASE pat = "fresh" -> None
                  [] pat = "plain" -> Some(Orig)
                  [] pat = "unparsable" -> Some(Corrupt)
                  [] OTHER -> IF k = 1 THEN Some(Corrupt)
                              ELSE IF k > 2 THEN None ELSE Some(Orig),
                None)]

Init ==
    /\ providers = [i \in ProviderIds |->
                       [id |-> i, url |-> UrlOf(i), is_current |-> i = 1,
                        sort_index |-> None, created_at |-> 10]]
    /\ txn = NoTxn
    /\ regRet = Ret("None")
    /\ journal = EmptyJournal
    /\ jRet = Ret("None")
    /\ lastCmd = Cmd("run", 0, "", None)
    /\ WriterIdle
    /\ BackupIdle
    /\ installed \in Installations
    /\ \E pat \in [installed -> InitPatterns] :
          disk = [a \in installed |-> InitFiles(a, pat[a])]
    /\ proc = "idle"
    /\ sw = NoSwitch
    /\ rec = {}
    /\ cmds = 0
    /\ hist = NoHist

Next ==
    \/ \E id \in ProviderIds \cup {MissingId} : SwStart(id)
    \/ \E saveOk \in BOOLEAN : SwSnapshot(saveOk)
    \/ \E fault \in SyncFaults : SwSync(fault)
    \/ \E deleteOk \in BOOLEAN : SwPost(deleteOk)
    \/ SwCommit
    \/ Crash
    \/ Restart
    \/ \E a \in Apps, fault \in RecFaults : RecoverStep(a, fault)

Spec == Init /\ [][Next]_vars

\* ------------------------------------------------------------------------
\* The restore command (lib.rs restore_cli) between switches
\* ------------------------------------------------------------------------
restore_cli(files, app, ioFail) ==
    CASE app \in CliApps -> restore_config(files, app, ioFail)
      [] app = "droid" -> restore_droid_config(files, ioFail)
      [] OTHER -> restore_remove_rename(files, ioFail)

\* The has_backup flag of an application's status: some config file has its
\* simple backup beside it.
has_backup(files) == \E k \in DOMAIN files : files[k].bak # None

\* restore_cli(app); ioFail: the first file operation it attempts fails.
RestoreCli(a, ioFail) ==
    /\ proc = "idle"
    /\ a \in installed
    /\ LET r == restore_cli(disk[a], a, ioFail)
       IN  /\ disk' = [disk EXCEPT ![a] = r.files]
           /\ hist' = [hist EXCEPT !.restores =
                          <<[app |-> a, ev |-> IF r.ok THEN "Ok" ELSE "Err"]>>]
    /\ lastCmd' = Cmd(IF ioFail THEN "restore_cli_fault" ELSE "restore_cli",
                      0, a, None)
    /\ UNCHANGED <<providers, journal, installed, proc, sw, rec, cmds,
                   exceptOrch>>

\* One application is installed; its config files are missing, plain, or
\* hold text that does not parse (the first file only, or all of them).
RestorePatterns == InitPatterns \cup {"unparsable"}

InitRestore ==
    /\ providers = [i \in ProviderIds |->
                       [id |-> i, url |-> UrlOf(i), is_current |-> i = 1,
                        sort_index |-> None, created_at |-> 10]]
    /\ txn = NoTxn
    /\ regRet = Ret("None")
    /\ journal = EmptyJournal
    /\ jRet = Ret("None")
    /\ lastCmd = Cmd("run", 0, "", None)
    /\ WriterIdle
    /\ BackupIdle
    /\ \E a \in Apps, pat \in RestorePatterns :
          /\ installed = {a}
          /\ disk = [b \in {a} |-> InitFiles(a, pat)]
    /\ proc = "idle"
    /\ sw = NoSwitch
    /\ rec = {}
    /\ cmds = 0
    /\ hist = NoHist

\* Switches whose journal calls succeed, and restores.
NextRestore ==
    \/ \E id \in ProviderIds : SwStart(id)
    \/ SwSnapshot(TRUE)
    \/ \E fault \in SyncFaults : SwSync(fault)
    \/ SwPost(TRUE)
    \/ SwCommit
    \/ \E a \in Apps, ioFail \in BOOLEAN : RestoreCli(a, ioFail)

SpecRestore == InitRestore /\ [][NextRestore]_vars

\* ------------------------------------------------------------------------
\* Startup recovery over any number of launches
\* ------------------------------------------------------------------------
\* The application is closed, or killed while recover_from_crash runs.
Quit ==
    /\ proc \in {"idle", "recover"}
    /\ proc' = "down"
    /\ rec' = {}
    /\ lastCmd' = Cmd("exit", 0, "", None)
    /\ UNCHANGED <<providers, journal, installed, disk, sw, cmds, hist,
                   exceptOrch>>

\* The process is down after a switch that was killed, or whose syncs failed,
\* before any config file was rewritten: rows hold what the switch read.
InitRecover ==
    /\ providers = [i \in ProviderIds |->
                       [id |-> i, url |-> UrlOf(i), is_current |-> i = 1,
                        sort_index |-> None, created_at |-> 10]]
    /\ txn = NoTxn
    /\ regRet = Ret("None")
    /\ jRet = Ret("None")
    /\ lastCmd = Cmd("exit", 0, "", None)
    /\ WriterIdle
    /\ BackupIdle
    /\ installed \in Installations
    /\ \E pat \in [installed -> InitPatterns] :
          disk = [a \in installed |-> InitFiles(a, pat[a])]
    /\ \E pending \in SUBSET installed :
          /\ \A a \in pending :
                IF a \in SeqRange(AllApps) THEN read_config_snapshot(disk, a) # None
                ELSE read_extra_config_content(disk, a) # None
          /\ journal = [a \in pending |->
                          IF a \in SeqRange(AllApps)
                          THEN read_config_snapshot(disk, a)[1]
                          ELSE read_extra_config_content(disk, a)[1]]
    /\ proc = "down"
    /\ sw = NoSwitch
    /\ rec = {}
    /\ cmds = 0
    /\ hist = NoHist

NextRecover ==
    \/ Restart
    \/ \E a \in Apps, fault \in RecFaults : RecoverStep(a, fault)
    \/ Quit

\* Every run ends and is followed by a launch; the loop of
\* recover_from_crash goes on to the end of its list; an I/O or database
\* failure does not repeat forever.
SpecRecover ==
    /\ InitRecover
    /\ [][NextRecover]_vars
    /\ WF_vars(Restart)
    /\ WF_vars(Quit)
    /\ \A a \in Apps : SF_vars(RecoverStep(a, "none"))

\* The events of a whole switch over the applications q, in order.
RECURSIVE ExpectedOrder(_)
ExpectedOrder(q) ==
    IF q = <<>> THEN <<>>
    ELSE <<[app |-> Head(q), ev |-> "snapshot"], [app |-> Head(q), ev |-> "sync"]>>
         \o ExpectedOrder(Tail(q))

IsPrefix(p, q) == Len(p) <= Len(q) /\ SubSeq(q, 1, Len(p)) = p

\* C1, as stated: while an application's config has been modified by its
\* adapter in the running (or crashed) switch and the adapter has not
\* reported success, the journal holds a row for the application with
\* exactly the content this switch read before touching the file, provided
\* the config was readable and save_backup succeeded.
C1_RowHoldsContentReadByThisSwitch ==
    \A a \in hist.touched :
        (hist.snaps[a] # None /\ a \notin hist.faulted) =>
            /\ a \in DOMAIN journal
            /\ journal[a] = hist.snaps[a][1]

\* C1, amended: under the same conditions the journal holds a row for the
\* application; it holds the content this switch read when no row was
\* pending for the application at the start of the switch, and otherwise the
\* row that was already pending, unchanged.
C1_RowHoldsSnapshotOrPendingRow ==
    \A a \in hist.touched :
        (hist.snaps[a] # None /\ a \notin hist.faulted) =>
            /\ a \in DOMAIN journal
            /\ journal[a] = IF a \in DOMAIN hist.j0 THEN hist.j0[a]
                            ELSE hist.snaps[a][1]

\* The process was killed after an adapter had rewritten a config file: the
\* row holds the content read before, the file no longer does.
C1_Witness ==
    /\ proc = "down"
    /\ \E a \in hist.touched :
          /\ hist.snaps[a] # None
          /\ a \notin hist.faulted
          /\ a \notin DOMAIN hist.j0
          /\ a \in DOMAIN journal
          /\ journal[a] = hist.snaps[a][1]
          /\ disk[a][1].file # Some(journal[a])

\* C2, as stated: a recovery step that finds a snapshot for an app type and
\* meets no I/O or database failure leaves the application's config file
\* equal to the snapshot and the journal without the row.
C2_RecoveryRestoresVerbatim ==
    [][(lastCmd'.cmd = "recover_from_crash" /\ lastCmd'.content # None) =>
          /\ disk'[lastCmd'.app][1].file = lastCmd'.content
          /\ lastCmd'.app \notin DOMAIN journal']_vars

\* C7: when switch_provider returns for an id the registry holds, the
\* provider with that id is the current one, every installed application has
\* been processed before, and no step before phase 2 changes the registry,
\* whatever the per-application outcomes were.
C7_SwitchEndsWithTargetCurrent ==
    [][/\ (/\ lastCmd'.cmd = "switch_provider"
           /\ lastCmd'.id \in DOMAIN providers
           /\ sw'.phase = "done") =>
             /\ get_current(providers') = Some(providers'[lastCmd'.id])
             /\ CurrentIds(providers') = {lastCmd'.id}
             /\ hist'.order = ExpectedOrder(InOrder(installed))
       /\ (proc = "switch" /\ sw.phase # "commit") =>
             providers' = providers]_vars

\* Every application's sync failed, and the target is current all the same.
C7_Witness ==
    /\ sw.ret = "Ok"
    /\ sw.id = 2
    /\ Cardinality(installed) = 2
    /\ sw.errors = InOrder(installed)
    /\ CurrentIds(providers) = {2}

\* C8: a switch snapshots and syncs every installed application exactly
\* once, one after another in the fixed order, whatever was unreadable,
\* whichever save_backup failed and whichever sync failed.
C8_EveryAppOnceInOrder ==
    /\ IsPrefix(hist.order, ExpectedOrder(InOrder(installed)))
    /\ sw.ret = "Ok" => hist.order = ExpectedOrder(InOrder(installed))

\* The first application could not be read and its sync failed; the second
\* one's save_backup failed; the second was snapshotted and synced all the same.
C8_Witness ==
    /\ sw.ret = "Ok"
    /\ Len(InOrder(installed)) = 2
    /\ hist.snaps[InOrder(installed)[1]] = None
    /\ sw.errors = <<InOrder(installed)[1]>>
    /\ hist.snaps[InOrder(installed)[2]] # None
    /\ InOrder(installed)[2] \in hist.faulted
    /\ disk[InOrder(installed)[2]][1].file
          = Some(Merge(config_files(InOrder(installed)[2])[1],
                       hist.snaps[InOrder(installed)[2]], sw.url))

C10_MissingIdTouchesNothing ==
    [][(/\ lastCmd'.cmd = "switch_provider"
        /\ lastCmd'.app = ""
        /\ lastCmd'.id \notin DOMAIN providers) =>
          /\ sw'.ret = "ProviderNotFound"
          /\ proc' = "idle"
          /\ disk' = disk
          /\ journal' = journal
          /\ providers' = providers]_vars

\* The call was made on a store with a pending journal row, a backup file on
\* disk and a current provider.
C10_Witness ==
    /\ sw.ret = "ProviderNotFound"
    /\ DOMAIN journal # {}
    /\ \E a \in installed : disk[a][1].bak # None
    /\ CurrentIds(providers) = {2}

\* C11: switch_provider on an existing target reports partial failure as a
\* value: it returns Ok with a result whose success flag is true exactly when
\* no application's sync failed and whose error list names exactly the
\* applications whose sync failed, once each, in processing order.
C11_PartialFailureIsAValue ==
    [][(/\ lastCmd'.cmd = "switch_provider"
        /\ lastCmd'.id \in DOMAIN providers
        /\ sw'.phase = "done") =>
          /\ sw'.ret = "Ok"
          /\ sw'.success <=> hist'.failed = {}
          /\ sw'.errors = SelectSeq(InOrder(installed),
                                    LAMBDA a : a \in hist'.failed)]_vars

\* The first of two applications synced, the second failed: the call
\* returned Ok with success false and the one entry.
C11_Witness ==
    /\ sw.ret = "Ok"
    /\ ~sw.success
    /\ Len(InOrder(installed)) = 2
    /\ hist.failed = {InOrder(installed)[2]}
    /\ sw.errors = <<InOrder(installed)[2]>>

\* C12, as stated: when provider 1 is current and switch_provider(2) runs
\* with only the sync of "gemini" failing, the result has success false and
\* one entry in errors, whose app field is "gemining".
C12_EntryNamesGemining ==
    [][(/\ lastCmd'.cmd = "switch_provider"
        /\ lastCmd'.id = 2
        /\ sw'.phase = "done"
        /\ CurrentIds(providers) = {1}
        /\ hist'.failed = {"gemini"}) =>
          /\ ~sw'.success
          /\ sw'.errors = <<"gemining">>]_vars

\* C12, amended: in that scenario the one entry's app field is "gemini", the
\* name the loop iterates over and the journal row is keyed by.
C12_EntryNamesGemini ==
    [][(/\ lastCmd'.cmd = "switch_provider"
        /\ lastCmd'.id = 2
        /\ sw'.phase = "done"
        /\ CurrentIds(providers) = {1}
        /\ hist'.failed = {"gemini"}) =>
          /\ ~sw'.success
          /\ sw'.errors = <<"gemini">>]_vars

\* The switch to provider 2 has returned: gemini's sync failed, opencode's
\* succeeded, provider 2 is current and gemini's row is pending.
C12_Witness ==
    /\ sw.ret = "Ok"
    /\ sw.id = 2
    /\ cmds = 1
    /\ installed = {"gemini", "opencode"}
    /\ hist.failed = {"gemini"}
    /\ sw.errors = <<"gemini">>
    /\ ~sw.success
    /\ CurrentIds(providers) = {2}
    /\ DOMAIN journal = {"gemini"}

\* C13: in every registry state, delete(id) on the provider whose is_current
\* is true fails with the provider-in-use error, opens no transaction and
\* leaves every provider row, the target and its current flag included, as
\* it was.
C13_DeleteCurrentRefused ==
    [][(/\ lastCmd'.cmd = "delete_provider"
        /\ txn = NoTxn
        /\ lastCmd'.id \in DOMAIN providers
        /\ providers[lastCmd'.id].is_current) =>
          /\ regRet'.status = "ProviderInUse"
          /\ txn' = NoTxn
          /\ providers' = providers]_vars

\* The delete of the current one of two providers has just been refused.
C13_Witness ==
    /\ lastCmd.cmd = "delete_provider"
    /\ regRet.status = "ProviderInUse"
    /\ Cardinality(DOMAIN providers) = 2
    /\ CurrentIds(providers) = {lastCmd.id}

C15_SetCurrentAllOrNothing ==
    [][/\ (/\ lastCmd'.cmd = "set_current"
            /\ txn = NoTxn
            /\ lastCmd'.id \notin DOMAIN providers) =>
              /\ regRet'.status = "ProviderNotFound"
              /\ txn' = NoTxn
              /\ providers' = providers
       /\ txn.op = "set_current" =>
              \/ providers' = providers /\ regRet'.status # "Ok"
              \/ /\ txn.step = "commit"
                 /\ regRet'.status = "Ok"
                 /\ txn' = NoTxn
                 /\ CurrentIds(providers') = {txn.id}
                 /\ providers' = set_current(providers, txn.id)
       /\ lastCmd'.cmd = "get_current_provider" =>
              /\ txn = NoTxn
              /\ providers' = providers
              /\ regRet'.row = get_current(providers)]_vars

\* Inside a set_current the flag is cleared on every row of the working copy
\* and not yet set on the target, while the table still shows the provider
\* that was current before.
C15_Witness ==
    /\ txn.op = "set_current"
    /\ txn.step = "set"
    /\ CurrentIds(txn.work) = {}
    /\ Cardinality(CurrentIds(providers)) = 1
    /\ CurrentIds(providers) # {txn.id}
    /\ get_current(providers) # None

\* C16, as stated, for a recovery step that meets no I/O failure of its own:
\* when no snapshot comes back for the pending application, or when the raw
\* write refuses the snapshot, the adapter's backup-file restore runs on the
\* application's files, and the journal row is deleted when that restore
\* succeeds.
C16_FallbackToBackupFileRestore ==
    [][\A a \in Apps :
         (/\ lastCmd'.app = a
          /\ proc = "recover"
          /\ a \in DOMAIN journal
          /\ \/ /\ lastCmd'.cmd = "recover_from_crash_fault"
                /\ lastCmd'.content = None
             \/ /\ lastCmd'.cmd = "recover_from_crash"
                /\ lastCmd'.content # None
                /\ ~restore_from_snapshot(disk[a], a, lastCmd'.content[1],
                                          FALSE).ok) =>
             LET fallback == restore_via_module(disk[a], a, FALSE)
             IN  /\ disk'[a] = fallback.files
                 /\ fallback.ok => a \notin DOMAIN journal']_vars

\* C17: when the restore of one pending application fails during startup
\* recovery, the journal is left as it was (the row in place, its content
\* unchanged), the loop goes on with the other pending applications and
\* ends normally; the next startup lists every row again, the failed one
\* included; and a row whose snapshot the raw write accepts is eventually
\* cleared.
C17_FailedRowKeptAndRetried ==
    /\ [][/\ (/\ proc = "recover"
              /\ lastCmd'.cmd \in {"recover_from_crash",
                                   "recover_from_crash_fault"}
              /\ hist'.restores # hist.restores
              /\ hist'.restores[Len(hist'.restores)].ev = "Err") =>
                 /\ journal' = journal
                 /\ lastCmd'.app \in DOMAIN journal'
                 /\ rec' = rec \ {lastCmd'.app}
                 /\ proc' = IF rec' = {} THEN "idle" ELSE "recover"
          /\ (proc = "down" /\ lastCmd'.cmd = "run") =>
                 /\ journal' = journal
                 /\ rec' = DOMAIN journal
                 /\ proc' = IF rec' = {} THEN "idle" ELSE "recover"]_vars
    /\ \A a \in Apps :
          (/\ a \in DOMAIN journal
           /\ restore_from_snapshot(disk[a], a, journal[a], FALSE).ok)
             ~> (a \notin DOMAIN journal)

\* A recovery run has ended: the restore of the first application failed and
\* its row is still there; the second one was restored after it and its row
\* is gone.
C17_Witness ==
    /\ proc = "idle"
    /\ Len(hist.restores) = 2
    /\ hist.restores[1].ev = "Err"
    /\ hist.restores[2].ev = "Ok"
    /\ hist.restores[1].app \in DOMAIN journal
    /\ hist.restores[2].app \notin DOMAIN journal
    /\ restore_from_snapshot(disk[hist.restores[1].app], hist.restores[1].app,
                             journal[hist.restores[1].app], FALSE).ok

\* C18: a startup that finds the journal empty changes no config file, no
\* backup file, no journal row and no provider row and is over at once, and
\* so is the startup after it; a recovery step only ever acts on an
\* application that has a row.
C18_EmptyJournalNoOp ==
    [][/\ (/\ proc = "down"
            /\ lastCmd'.cmd = "run"
            /\ DOMAIN journal = {}) =>
              /\ disk' = disk
              /\ journal' = journal
              /\ providers' = providers
              /\ rec' = {}
              /\ proc' = "idle"
       /\ (/\ proc = "recover"
            /\ lastCmd'.cmd \in {"recover_from_crash",
                                 "recover_from_crash_fault"}) =>
              lastCmd'.app \in DOMAIN journal]_vars

\* The application was started after a completed switch and a clean exit:
\* the journal is empty, a proxy-configured file and its backup are on disk,
\* provider 2 is current, and the startup is over.
C18_Witness ==
    /\ lastCmd.cmd = "run"
    /\ proc = "idle"
    /\ DOMAIN journal = {}
    /\ CurrentIds(providers) = {2}
    /\ \E a \in installed :
          /\ disk[a][1].bak # None
          /\ disk[a][1].file # disk[a][1].bak

\* C19: a restore that succeeds on an application with a simple ("latest")
\* backup leaves every config file that had a backup with the backup's
\* content and every other file as it was, and consumes the backups: no
\* backup file is left, the application's status reports no backup, and a
\* restore repeated at once finds none (for the applications without the
\* key-removal path it returns the no-backup error).
C19_RestoreConsumesBackup ==
    [][\A a \in Apps :
         (/\ lastCmd'.cmd \in {"restore_cli", "restore_cli_fault"}
          /\ lastCmd'.app = a
          /\ hist'.restores = <<[app |-> a, ev |-> "Ok"]>>
          /\ has_backup(disk[a])) =>
             /\ \A k \in DOMAIN disk[a] :
                   IF disk[a][k].bak # None
                   THEN disk'[a][k] = File(disk[a][k].bak, None)
                   ELSE disk'[a][k] = disk[a][k]
             /\ ~has_backup(disk'[a])
             /\ a \notin CliApps => ~restore_cli(disk'[a], a, FALSE).ok
             /\ a \in CliApps =>
                   \A k \in DOMAIN disk[a] :
                       restore_cli(disk'[a], a, FALSE).files[k].bak = None]_vars

\* After a switch that rewrote its config file, an application without a
\* key-removal path was restored: the file holds what the switch had read
\* before writing, and the backup is gone.
C19_Witness ==
    /\ lastCmd.cmd = "restore_cli"
    /\ \E a \in installed \ CliApps :
          /\ hist.restores = <<[app |-> a, ev |-> "Ok"]>>
          /\ sw.ret = "Ok"
          /\ sw.errors = <<>>
          /\ hist.snaps[a] # None
          /\ disk[a][1].file = hist.snaps[a]
          /\ disk[a][1].file[1].proxy = ""
          /\ ~has_backup(disk[a])

\* C20, as stated: a restore of an application that has no simple backup and
\* meets no I/O failure succeeds, every config file that exists still
\* exists afterwards with the user's own settings as they were, and no file
\* appears or disappears; for every application.
C20_NoBackupRemovesOnlyInjected ==
    [][\A a \in Apps :
         (/\ lastCmd'.cmd = "restore_cli"
          /\ lastCmd'.app = a
          /\ ~has_backup(disk[a])) =>
             /\ hist'.restores = <<[app |-> a, ev |-> "Ok"]>>
             /\ \A k \in DOMAIN disk[a] :
                   IF disk[a][k].file = None THEN disk'[a][k].file = None
                   ELSE /\ disk'[a][k].file # None
                        /\ disk'[a][k].file[1].user = disk[a][k].file[1].user]_vars

\* C26: every change to a config file goes through write-temp-then-rename:
\* no step of any operation leaves a config file that existed before the
\* step missing or partially written.
C26_ConfigNeverMissingOrPartial ==
    [][\A a \in DOMAIN disk : \A k \in DOMAIN disk[a] :
          disk[a][k].file # None =>
             /\ a \in DOMAIN disk'
             /\ disk'[a][k].file # None
             /\ disk'[a][k].file # Some(Partial)]_vars

\* ------------------------------------------------------------------------
\* The sync command (lib.rs sync_cli) beside switches and launches
\* ------------------------------------------------------------------------
\* sync_config and its like, the step for file k: backup, merge, atomic
\* write; a file the sync skips is left alone.
SyncFile(files, app, k, url) ==
    IF Skipped(files, app, k) THEN files
    ELSE SetFile(files, k,
                 File(Some(Merge(config_files(app)[k], files[k].file, url)),
                      BackupOnce(files[k])))

\* The files after the steps for files 1..n.
RECURSIVE SyncUpTo(_, _, _, _)
SyncUpTo(files, app, n, url) ==
    IF n = 0 THEN files
    ELSE SyncFile(SyncUpTo(files, app, n - 1, url), app, n, url)

\* The whole sync of one application. failAt names the file whose atomic
\* write fails, 0 when none does: the files before it are written, its
\* backup is taken, and the sync returns Err.
sync_config(files, app, url, failAt) ==
    IF failAt = 0 THEN Done(TRUE, SyncUpTo(files, app, Len(files), url))
    ELSE LET before == SyncUpTo(files, app, failAt - 1, url)
         IN  Done(FALSE, SetFile(before, failAt,
                                 File(before[failAt].file,
                                      BackupOnce(before[failAt]))))

\* sync_cli(app, url, api_key, model) with arguments that pass validation:
\* the application's sync and nothing else; no statement of it reads or
\* writes the journal.
SyncCli(a, url, failAt) ==
    /\ proc = "idle"
    /\ a \in installed
    /\ failAt \in 0..Len(disk[a])
    /\ failAt # 0 => ~Skipped(disk[a], a, failAt)
    /\ LET r == sync_config(disk[a], a, url, failAt)
       IN  /\ disk' = [disk EXCEPT ![a] = r.files]
           /\ lastCmd' = Cmd(IF r.ok THEN "sync_cli" ELSE "sync_cli_fault",
                             0, a, None)
    /\ UNCHANGED <<providers, journal, installed, proc, sw, rec, cmds, hist,
                   exceptOrch>>

NextSync ==
    \/ Next
    \/ \E a \in Apps, id \in ProviderIds :
          \E failAt \in 0..Len(config_files(a)) :
             SyncCli(a, UrlOf(id), failAt)

SpecSync == InitRestore /\ [][NextSync]_vars

\* C28: a journal row left behind by a failed sync in switch_provider does
\* not outlive a later successful write of the same application's config:
\* when sync_cli returns Ok for the application, or a sync of a later
\* switch_provider succeeds and its delete_backup call does not fail, the
\* journal holds no row for the application.
C28_NoStaleRow ==
    [][/\ lastCmd'.cmd = "sync_cli" => lastCmd'.app \notin DOMAIN journal'
       /\ (/\ lastCmd'.cmd = "switch_provider"
           /\ sw.phase = "post" /\ sw.result = "Ok"
           /\ lastCmd'.app \notin hist'.faulted) =>
             lastCmd'.app \notin DOMAIN journal']_vars

\* ------------------------------------------------------------------------
\* switch_provider beside other registry commands (async tauri commands)
\* ------------------------------------------------------------------------
\* The rows save_provider is called with here: a profile that is not marked
\* current, under either id.
AsyncRecords ==
    {[id |-> i, url |-> UrlOf(i), is_current |-> FALSE, sort_index |-> None,
      created_at |-> 10] : i \in ProviderIds}

\* Commands are async and run on the runtime's threads: between two steps of
\* a switch_provider call a save_provider or delete_provider call may run.
\* Each call into the store holds the connection mutex for its duration.
NextAsync ==
    \/ \E id \in ProviderIds : SwStart(id)
    \/ SwSnapshot(TRUE)
    \/ \E fault \in SyncFaults : SwSync(fault)
    \/ SwPost(TRUE)
    \/ SwCommit
    \/ \E p \in AsyncRecords : RegSave(p, p.url)
    \/ \E id \in ProviderIds : RegDeleteBegin(id)
    \/ RegDeleteExecute
    \/ RegCommit

SpecAsync == InitRestore /\ [][NextAsync]_vars

\* C29: a switch_provider call that has passed its target lookup returns,
\* whatever registry commands ran between its steps, Ok with a SwitchResult
\* that lists the applications whose sync failed, and leaves its target as
\* the one current provider.
C29_SwitchAlwaysCommits ==
    [][(proc = "switch" /\ proc' = "idle") =>
          /\ sw'.ret = "Ok"
          /\ sw'.errors = SelectSeq(InOrder(installed),
                                    LAMBDA a : a \in hist'.failed)
          /\ CurrentIds(providers') = {sw.id}]_vars

\* Switches, crashes and launches over one installed application that has
\* several config files, with the files before each switch kept on record.
InitCrash ==
    /\ providers = [i \in ProviderIds |->
                       [id |-> i, url |-> UrlOf(i), is_current |-> i = 1,
                        sort_index |-> None, created_at |-> 10]]
    /\ txn = NoTxn
    /\ regRet = Ret("None")
    /\ journal = EmptyJournal
    /\ jRet = Ret("None")
    /\ lastCmd = Cmd("run", 0, "", None)
    /\ WriterIdle
    /\ BackupIdle
    /\ \E a \in CliApps, pat \in InitPatterns :
          /\ installed = {a}
          /\ disk = [b \in {a} |-> InitFiles(a, pat)]
    /\ proc = "idle"
    /\ sw = NoSwitch
    /\ rec = {}
    /\ cmds = 0
    /\ hist = [NoHist EXCEPT !.d0 = disk]

SpecCrash == InitCrash /\ [][Next]_vars

\* C27: for an application whose sync rewrites several config files, a
\* recovery step that wrote the journal's snapshot back and deleted the row,
\* after a switch that wrote that row and crashed or failed part-way, leaves
\* every config file of the application equal to what it held before that
\* switch.
C27_AllFilesRestored ==
    [][(/\ lastCmd'.cmd = "recover_from_crash"
        /\ lastCmd'.app \in CliApps
        /\ lastCmd'.app \in DOMAIN journal
        /\ lastCmd'.app \notin DOMAIN journal'
        /\ lastCmd'.app \notin DOMAIN hist.j0
        /\ lastCmd'.app \in DOMAIN hist.d0) =>
          \A k \in DOMAIN disk'[lastCmd'.app] :
              disk'[lastCmd'.app][k].file = hist.d0[lastCmd'.app][k].file]_vars

\* ------------------------------------------------------------------------
\* list_providers and reorder_providers (providers.rs get_all, reorder)
\* ------------------------------------------------------------------------
\* ORDER BY COALESCE(sort_index, 999999), created_at ASC
SortSentinel == 999999

SortKey(row) == IF row.sort_index = None THEN SortSentinel ELSE row.sort_index[1]

\* Row a may come before row b in the result; rows equal in both keys come
\* in either order.
OrderedBefore(a, b) ==
    \/ SortKey(a) < SortKey(b)
    \/ SortKey(a) = SortKey(b) /\ a.created_at <= b.created_at

\* The results get_all can return for a table.
get_all(rows) ==
    LET n == Cardinality(DOMAIN rows)
    IN  {[k \in 1..n |-> rows[order[k]]] :
            order \in {o \in [1..n -> DOMAIN rows] :
                          /\ \A i, j \in 1..n : i # j => o[i] # o[j]
                          /\ \A i, j \in 1..n :
                                i < j => OrderedBefore(rows[o[i]], rows[o[j]])}}

\* reorder: sort_index becomes the position in ids, for the ids that have a
\* row; the last occurrence of an id wins.
reorder(rows, ids) ==
    [i \in DOMAIN rows |->
        IF \E k \in 1..Len(ids) : ids[k] = i
        THEN [rows[i] EXCEPT !.sort_index =
                 Some((CHOOSE k \in 1..Len(ids) :
                          /\ ids[k] = i
                          /\ \A m \in 1..Len(ids) : ids[m] = i => m <= k) - 1)]
        ELSE rows[i]]

RegList ==
    /\ txn = NoTxn
    /\ lastCmd' = Cmd("list_providers", 0, "", None)
    /\ \E result \in get_all(providers) :
          regRet' = [status |-> "Ok", row |-> result]
    /\ UNCHANGED <<providers, txn, exceptRegistry>>

RegReorder(ids) ==
    /\ txn = NoTxn
    /\ lastCmd' = Cmd("reorder_providers", 0, "", None)
    /\ providers' = reorder(providers, ids)
    /\ regRet' = Ret("Ok")
    /\ UNCHANGED <<txn, exceptRegistry>>

\* The sort_index values a caller of save_provider passes: none, small ones,
\* and values at and above the number the query puts in for NULL.
ListSortIndexes ==
    {None, Some(0), Some(1), Some(SortSentinel), Some(SortSentinel + 1)}

ListRecords ==
    [id : ProviderIds, url : {"https://a.test"}, is_current : {FALSE},
     sort_index : ListSortIndexes, created_at : CreatedAts]

NextList ==
    \/ \E p \in ListRecords : RegSave(p, p.url)
    \/ RegList
    \/ \E ids \in [1..MaxProviders -> ProviderIds] : RegReorder(ids)

SpecList == InitRegistry /\ [][NextList]_vars

\* C21, as stated: in every result of list(), every profile with a non-null
\* sort_index, whatever its value, precedes every profile whose sort_index
\* is null.
C21_NonNullBeforeNull ==
    lastCmd.cmd = "list_providers" =>
        \A i, j \in 1..Len(regRet.row) :
            (/\ regRet.row[i].sort_index # None
             /\ regRet.row[j].sort_index = None) => i < j

====
